---------------------------- MODULE Spec2Model ----------------------------
(* A model of the movie catalog backend: the relational store behind the   *)
(* one shared connection of app/db/database.py, the movie listing query of *)
(* get_movie_list, and the write handlers create_movie and update_movie of *)
(* app/routes/movies.py, stepped at their database calls.                  *)
EXTENDS Integers, Sequences, FiniteSets, TLC

VARIABLES
    committed,  \* the durable content of the tables
    conn,       \* the tables as seen on the one shared connection (committed + unflushed-to-disk work)
    nreq,       \* number of requests received so far
    pc,         \* per handler slot: the database call the handler is about to make
    rq,         \* per slot: the validated request
    loc,        \* per slot: the handler's local variables
    resp,       \* per slot: the response status of the request (0 while running)
    before,     \* per slot: the committed tables when the request arrived
    listreq,    \* the listing client's request (filters, sort, page size, page)
    list,       \* the listing client's last response and the pages it has read so far
    s3          \* the objects of the avatar storage

vars == <<committed, conn, nreq, pc, rq, loc, resp, before, listreq, list, s3>>

-----------------------------------------------------------------------------
(* Bounds of the model *)

MaxMovies == 3      \* movies a catalog script creates
MaxRequests == 3    \* write requests per behaviour
MaxPage == 2        \* largest page number a client asks for directly
MaxPerPage == 2     \* largest per_page a client asks for

-----------------------------------------------------------------------------
(* Optional values: None is <<>>, a present value v is <<v>> *)

None == <<>>

Some(v) == <<v>>

\* Python truthiness of an optional int/float query parameter ("if year:")
TruthyNum(o) == o # None /\ o[1] # 0

\* Python truthiness of an optional str query parameter ("if genre:")
TruthyStr(o) == o # None /\ o[1] # <<>>

-----------------------------------------------------------------------------
(* Strings are sequences of characters *)

Lower(c) == CASE c = "A" -> "a" [] c = "B" -> "b" [] OTHER -> c

Upper(c) == CASE c = "a" -> "A" [] c = "b" -> "B" [] OTHER -> c

IsCased(c) == c \in {"a", "b", "A", "B"}

ToLower(s) == [i \in 1..Len(s) |-> Lower(s[i])]

\* str.title(): a cased character is upper-cased when it starts a word
\* (follows an uncased character or nothing) and lower-cased otherwise
Title(s) ==
    [i \in 1..Len(s) |->
        IF i = 1 \/ ~IsCased(s[i - 1]) THEN Upper(s[i]) ELSE Lower(s[i])]

\* column.ilike("%pat%"): pat occurs in s, case-insensitively
ILike(s, pat) ==
    \E i \in 1..(Len(s) - Len(pat) + 1) :
        SubSeq(ToLower(s), i, i + Len(pat) - 1) = ToLower(pat)

\* the validator missing: the names are stored as sent
NormalizeListAsSent(value) == value

\* MovieCreateSchema.normalize_list_fields
NormalizeList(value) == [i \in 1..Len(value) |-> Title(value[i])]

-----------------------------------------------------------------------------
(* The tables *)

EmptyDB ==
    [movies |-> {}, genres |-> {}, stars |-> {}, directors |-> {},
     certifications |-> {}, movies_genres |-> {}, movies_stars |-> {},
     movies_directors |-> {}, cart_items |-> {}, user_profiles |-> {}]

MaxOf(S) == CHOOSE x \in S : \A y \in S : y <= x

\* primary_key=True, autoincrement=True on the SQLite engine of database.py:
\* the next rowid is one more than the largest in the table
NewId(rows) == IF rows = {} THEN 1 ELSE MaxOf({r.id : r \in rows}) + 1

\* a row of genres, stars, directors or certifications; "by" records the
\* request that inserted it
LookupRow(id, name, by) == [id |-> id, name |-> name, by |-> by]

\* the row a SQL NULL-extended outer join yields, and the placeholder for a
\* table that is not in the FROM list
NullRow == [id |-> 0, name |-> <<>>, by |-> 0]

\* select(X).where(X.name == name) ... .scalars().first()
FindByName(rows, name) ==
    IF \E r \in rows : r.name = name
    THEN Some(CHOOSE r \in rows : r.name = name)
    ELSE None


-----------------------------------------------------------------------------
(* Requests of POST /movies/ as the client sends them *)

Q1 ==
    [uuid |-> None, name |-> <<"a">>, year |-> 2020, time |-> 90, imdb |-> 8,
     votes |-> 1, meta_score |-> None, gross |-> None,
     description |-> <<"-">>, price |-> 5,
     genres |-> << <<"a">>, <<"b">> >>, stars |-> << <<"b">> >>,
     directors |-> << <<"a">>, <<"a", "-", "b">> >>,
     certification |-> <<"P">>]

Q2 ==
    [uuid |-> None, name |-> <<"b">>, year |-> 2021, time |-> 90, imdb |-> 0,
     votes |-> 2, meta_score |-> Some(50), gross |-> None,
     description |-> <<"-">>, price |-> 5,
     genres |-> << <<"A">> >>, stars |-> << <<"b">>, <<"a">> >>,
     directors |-> << >>,
     certification |-> <<"P">>]

Q3 ==
    [uuid |-> Some(<<"u">>), name |-> <<"a", "b">>, year |-> 2021, time |-> 90,
     imdb |-> 7, votes |-> 2, meta_score |-> None, gross |-> Some(1),
     description |-> <<"a">>, price |-> 9,
     genres |-> << <<"b">> >>, stars |-> << >>, directors |-> << <<"b">> >>,
     certification |-> <<"R">>]

\* the (name, year) of Q1 with another running time
Q4 == [Q1 EXCEPT !.time = 95, !.certification = <<"R">>, !.genres = << <<"a", "b">> >>]

\* two spellings of one genre
Q5 ==
    [uuid |-> None, name |-> <<"b", "a">>, year |-> 2021, time |-> 90,
     imdb |-> 7, votes |-> 0, meta_score |-> None, gross |-> None,
     description |-> <<"-">>, price |-> 0,
     genres |-> << <<"a", "-", "b">>, <<"A", "-", "B">> >>, stars |-> << >>,
     directors |-> << >>, certification |-> <<"G">>]

\* the uuid of Q3 under another name
Q6 == [Q3 EXCEPT !.name = <<"b", "b">>, !.certification = <<"G">>, !.stars = << <<"a">> >>]

\* a release year beyond next year
Q7 ==
    [uuid |-> None, name |-> <<"a", "a">>, year |-> 2028, time |-> 90,
     imdb |-> 10, votes |-> 0, meta_score |-> None, gross |-> None,
     description |-> <<"-">>, price |-> 0,
     genres |-> << <<"a">> >>, stars |-> << >>, directors |-> << >>,
     certification |-> <<"P">>]

\* a rating above the scale
Q8 == [Q7 EXCEPT !.year = 2021, !.imdb = 11]

CreateRequests == {Q1, Q2, Q3, Q4, Q5, Q6, Q7, Q8}

\* datetime.now().year
CurrentYear == 2026

\* MovieBaseSchema.validate_year, which MovieDetailSchema inherits
YearAccepted(year) == year <= CurrentYear + 1

\* the Field constraints of MovieCreateSchema: imdb ge=0 le=10, votes ge=0,
\* price ge=0. The schema derives from BaseModel: it has no validate_year
CreateSchemaAccepts(q) ==
    /\ q.imdb >= 0 /\ q.imdb <= 10
    /\ q.votes >= 0
    /\ q.price >= 0

\* the Field constraints of MovieUpdateSchema on the fields the body sets
UpdateSchemaAccepts(body) ==
    /\ "imdb" \in DOMAIN body => (body.imdb >= 0 /\ body.imdb <= 10)
    /\ "votes" \in DOMAIN body => body.votes >= 0
    /\ "price" \in DOMAIN body => body.price >= 0

\* MovieCreateSchema validation: the three name lists are title-cased
Validated(q) ==
    [q EXCEPT !.genres = NormalizeList(q.genres),
              !.stars = NormalizeList(q.stars),
              !.directors = NormalizeList(q.directors)]

-----------------------------------------------------------------------------
(* The statements create_movie issues, as functions of the tables they see *)

\* the pre-check made on the columns of the unique constraint instead
ExistingMovieByConstraint(db, q) ==
    \E m \in db.movies : m.name = q.name /\ m.year = q.year /\ m.time = q.time

\* existing_stmt: a movie with the request's name and year
ExistingMovie(db, q) ==
    \E m \in db.movies : m.name = q.name /\ m.year = q.year

\* INSERT of a lookup row breaks the unique constraint on name
LookupViolates(db, tab, name) == \E r \in db[tab] : r.name = name

\* db.add(X(name=name)); flush
InsertLookup(db, tab, name, by) ==
    [db EXCEPT ![tab] = @ \cup {LookupRow(NewId(db[tab]), name, by)}]

\* uuid=movie_data.uuid, or the column default uuid4() when it is None
MovieUuid(q, by) == IF q.uuid = None THEN <<"uuid4", by>> ELSE q.uuid[1]

\* MovieModel(...) as the flush of the commit inserts it
MovieRow(db, q, certification, by) ==
    [id |-> NewId(db.movies), uuid |-> MovieUuid(q, by), name |-> q.name,
     year |-> q.year, time |-> q.time, imdb |-> q.imdb, votes |-> q.votes,
     meta_score |-> q.meta_score, gross |-> q.gross,
     description |-> q.description, price |-> q.price,
     certification_id |-> certification.id, by |-> by]

\* the table without its UniqueConstraint("name", "year", "time")
MovieViolatesUuidOnly(movies, m) ==
    \E o \in movies : o.id # m.id /\ o.uuid = m.uuid

\* unique=True on uuid and UniqueConstraint("name", "year", "time")
MovieViolates(movies, m) ==
    \E o \in movies :
        /\ o.id # m.id
        /\ \/ o.uuid = m.uuid
           \/ (o.name = m.name /\ o.year = m.year /\ o.time = m.time)

\* one INSERT into a link table per element of the relationship list: the
\* same row twice in the list breaks the table's (movie_id, x_id) primary key
LinksViolate(rows) ==
    \E i, j \in 1..Len(rows) : i # j /\ rows[i].id = rows[j].id

LinkRows(mid, rows) == {<<mid, rows[i].id>> : i \in 1..Len(rows)}

\* the flush of db.commit() raises IntegrityError
CommitViolates(db, q, l, by) ==
    \/ MovieViolates(db.movies, MovieRow(db, q, l.certification, by))
    \/ LinksViolate(l.genres)
    \/ LinksViolate(l.stars)
    \/ LinksViolate(l.directors)

\* the flush of db.commit(): the movie row and its link rows
InsertMovie(db, q, l, by) ==
    LET m == MovieRow(db, q, l.certification, by) IN
    [db EXCEPT !.movies = @ \cup {m},
               !.movies_genres = @ \cup LinkRows(m.id, l.genres),
               !.movies_stars = @ \cup LinkRows(m.id, l.stars),
               !.movies_directors = @ \cup LinkRows(m.id, l.directors)]

-----------------------------------------------------------------------------
(* create_movie run from its first statement to its last with no other     *)
(* request in between; the catalogs of the listing are built with it       *)

RECURSIVE ResolveAll(_, _, _, _, _)
\* the "for name in names: select, else add and flush" loops
ResolveAll(db, tab, names, by, acc) ==
    IF names = <<>> THEN [db |-> db, rows |-> acc]
    ELSE LET found == FindByName(db[tab], Head(names)) IN
         IF found # None
         THEN ResolveAll(db, tab, Tail(names), by, Append(acc, found[1]))
         ELSE LET db2 == InsertLookup(db, tab, Head(names), by) IN
              ResolveAll(db2, tab, Tail(names), by,
                         Append(acc, FindByName(db2[tab], Head(names))[1]))

CreateMovieRun(db, q0, by) ==
    LET q == Validated(q0) IN
    IF ExistingMovie(db, q) THEN db
    ELSE LET c == ResolveAll(db, "certifications", <<q.certification>>, by, <<>>)
             g == ResolveAll(c.db, "genres", q.genres, by, <<>>)
             s == ResolveAll(g.db, "stars", q.stars, by, <<>>)
             d == ResolveAll(s.db, "directors", q.directors, by, <<>>)
             l == [certification |-> c.rows[1], genres |-> g.rows,
                   stars |-> s.rows, directors |-> d.rows]
         IN IF CommitViolates(d.db, q, l, by) THEN db
            ELSE InsertMovie(d.db, q, l, by)

RECURSIVE Populate(_)
Populate(script) ==
    IF script = <<>> THEN EmptyDB
    ELSE CreateMovieRun(Populate(SubSeq(script, 1, Len(script) - 1)),
                        script[Len(script)], Len(script))

CatalogRequests == {Q1, Q2, Q3, Q4}

\* the scripts: up to MaxMovies different requests, in any order
CatalogScripts ==
    {sc \in UNION {[1..n -> CatalogRequests] : n \in 0..MaxMovies} :
        \A i, j \in 1..Len(sc) : i # j => sc[i] # sc[j]}

Catalogs == {Populate(sc) : sc \in CatalogScripts}

-----------------------------------------------------------------------------
(* get_movie_list *)

\* the query parameters the listing client chooses from. A search together
\* with a director or star filter is left out: stmt then joins directors
\* (stars) twice under one table name, and what the database makes of that
\* statement is not a matter of this code
ListRequests ==
    {f \in [page : 1..MaxPage, per_page : 1..MaxPerPage,
            year : {None, Some(2021)},
            min_imdb : {None, Some(7)},
            max_imdb : {None, Some(8)},
            genre : {None, Some(<<"a">>)},
            director : {None, Some(<<"a">>)},
            star : {None, Some(<<"b">>)},
            search : {None, Some(<<"b">>)},
            sort_by : {None, Some("price"), Some("rating")}] :
        f.search # None => (f.director = None /\ f.star = None)}

\* r.name ILIKE '%pat%' on a joined row, NULL (not true) on a NULL-extended one
RowILike(r, pat) == r # NullRow /\ ILike(r.name, pat)

\* stmt._where_criteria: the conjunction of the .where() clauses, over one
\* row of movies and one row each of directors, stars and genres
Where(f, m, d, s, g) ==
    /\ TruthyNum(f.year) => m.year = f.year[1]
    /\ TruthyNum(f.min_imdb) => m.imdb >= f.min_imdb[1]
    /\ TruthyNum(f.max_imdb) => m.imdb <= f.max_imdb[1]
    /\ TruthyStr(f.director) => RowILike(d, f.director[1])
    /\ TruthyStr(f.star) => RowILike(s, f.star[1])
    /\ TruthyStr(f.genre) => RowILike(g, f.genre[1])
    /\ TruthyStr(f.search) =>
         \/ ILike(m.name, f.search[1])
         \/ ILike(m.description, f.search[1])
         \/ RowILike(d, f.search[1])
         \/ RowILike(s, f.search[1])

\* the tables the WHERE criteria mention
UsesDirectors(f) == TruthyStr(f.director) \/ TruthyStr(f.search)

UsesStars(f) == TruthyStr(f.star) \/ TruthyStr(f.search)

UsesGenres(f) == TruthyStr(f.genre)

\* count_stmt = select(func.count(MovieModel.id)).where(*stmt._where_criteria):
\* the joins of stmt are not copied, so FROM is the plain product of movies
\* with every other table the criteria mention
CountFrom(db, f) ==
    db.movies
      \X (IF UsesDirectors(f) THEN db.directors ELSE {NullRow})
      \X (IF UsesStars(f) THEN db.stars ELSE {NullRow})
      \X (IF UsesGenres(f) THEN db.genres ELSE {NullRow})

TotalItems(db, f) ==
    Cardinality({t \in CountFrom(db, f) : Where(f, t[1], t[2], t[3], t[4])})

\* the rows of tab that the link table ties to movie m
Linked(m, links, tab) == {r \in tab : <<m.id, r.id>> \in links}

\* .join(rel) / .outerjoin(rel) / rel not joined
Joined(m, links, tab, inner, outer) ==
    IF inner THEN Linked(m, links, tab)
    ELSE IF outer /\ Linked(m, links, tab) # {} THEN Linked(m, links, tab)
    ELSE {NullRow}

\* the rows of stmt before ORDER BY: one per combination of joined rows
StmtRows(db, f) ==
    {t \in UNION {
        {m} \X Joined(m, db.movies_directors, db.directors,
                      TruthyStr(f.director), TruthyStr(f.search))
            \X Joined(m, db.movies_stars, db.stars,
                      TruthyStr(f.star), TruthyStr(f.search))
            \X Joined(m, db.movies_genres, db.genres,
                      TruthyStr(f.genre), FALSE)
        : m \in db.movies} : Where(f, t[1], t[2], t[3], t[4])}

\* sort_fields / MovieModel.default_order_by
SortKey(f, m) ==
    IF f.sort_by = Some("price") THEN m.price
    ELSE IF f.sort_by = Some("year") THEN m.year
    ELSE IF f.sort_by = Some("votes") THEN m.votes
    ELSE m.id

RECURSIVE Orderings(_, _)
\* ORDER BY key DESC: every order of the rows that is descending in the key
\* (rows with equal keys come in an order the database chooses)
Orderings(rows, f) ==
    IF rows = {} THEN {<<>>}
    ELSE UNION {
        {<<t>> \o rest : rest \in Orderings(rows \ {t}, f)}
        : t \in {u \in rows :
                   \A v \in rows : SortKey(f, v[1]) <= SortKey(f, u[1])}}

\* .offset(offset).limit(per_page)
Window(ordered, f) ==
    SubSeq(ordered, (f.page - 1) * f.per_page + 1,
           IF f.page * f.per_page < Len(ordered)
           THEN f.page * f.per_page ELSE Len(ordered))

\* MovieListItemSchema.model_validate(movie)
MovieListItem(db, m) ==
    [id |-> m.id, name |-> m.name, year |-> m.year, time |-> m.time,
     imdb |-> m.imdb,
     genres |-> {[id |-> r.id, name |-> r.name] :
                   r \in Linked(m, db.movies_genres, db.genres)},
     directors |-> {[id |-> r.id, name |-> r.name] :
                   r \in Linked(m, db.movies_directors, db.directors)},
     stars |-> {[id |-> r.id, name |-> r.name] :
                   r \in Linked(m, db.movies_stars, db.stars)}]

\* f"/movies/?page={page}&per_page={per_page}"
PageLink(page, per_page) ==
    <<"/movies/?page=", page, "&per_page=", per_page>>

\* the division rounding down
TotalPagesFloor(total_items, per_page) == total_items \div per_page

\* total_pages = (total_items + per_page - 1) // per_page
TotalPages(total_items, per_page) == (total_items + per_page - 1) \div per_page

NoResponse ==
    [status |-> 0, movies |-> <<>>, prev_page |-> None, next_page |-> None,
     total_pages |-> 0, total_items |-> 0]

ErrorResponse(status) == [NoResponse EXCEPT !.status = status]

\* the responses get_movie_list can give to request f on tables db
MovieListResponses(db, f) ==
    LET total_items == TotalItems(db, f)
        total_pages == TotalPages(total_items, f.per_page)
    IN  IF total_items = 0 THEN {ErrorResponse(404)}
        ELSE {[status |-> 200,
               movies |-> [i \in 1..Len(Window(o, f)) |->
                             MovieListItem(db, Window(o, f)[i][1])],
               prev_page |-> IF f.page > 1
                             THEN Some(PageLink(f.page - 1, f.per_page))
                             ELSE None,
               next_page |-> IF f.page < total_pages
                             THEN Some(PageLink(f.page + 1, f.per_page))
                             ELSE None,
               total_pages |-> total_pages,
               total_items |-> total_items]
              : o \in Orderings(StmtRows(db, f), f)}

-----------------------------------------------------------------------------
(* The listing client: one request, then the next_page links it is given *)

NoListRequest ==
    [page |-> 0, per_page |-> 0, year |-> None, min_imdb |-> None,
     max_imdb |-> None, genre |-> None, director |-> None, star |-> None,
     search |-> None, sort_by |-> None]

\* what the client keeps of a response: the response, the page it started
\* from and the ids of the movies of all pages read since
Listed(r, first, ids) ==
    [response |-> r, first |-> first,
     ids |-> ids \o [i \in 1..Len(r.movies) |-> r.movies[i].id]]

NoList == Listed(NoResponse, 0, <<>>)

\* GET /movies/ with parameters f
GetMovieList(f) ==
    /\ list = NoList
    /\ listreq' = f
    /\ \E r \in MovieListResponses(conn, f) : list' = Listed(r, f.page, <<>>)
    /\ UNCHANGED <<committed, conn, nreq, pc, rq, loc, resp, before, s3>>

\* GET of the next_page link of the last response
FollowNextPage ==
    /\ list.response.status = 200
    /\ list.response.next_page # None
    /\ LET link == list.response.next_page[1]
           f == [listreq EXCEPT !.page = link[2], !.per_page = link[4]]
       IN /\ listreq' = f
          /\ \E r \in MovieListResponses(conn, f) :
                list' = Listed(r, list.first, list.ids)
    /\ UNCHANGED <<committed, conn, nreq, pc, rq, loc, resp, before, s3>>

-----------------------------------------------------------------------------
(* Handler slots *)

Slots == {1, 2}

NoRequest == [kind |-> "none"]

NoLocals == [kind |-> "none"]

InitHandlers ==
    /\ nreq = 0
    /\ pc = [s \in Slots |-> "idle"]
    /\ rq = [s \in Slots |-> NoRequest]
    /\ loc = [s \in Slots |-> NoLocals]
    /\ resp = [s \in Slots |-> 0]
    /\ before = [s \in Slots |-> EmptyDB]
    /\ s3 = {}

\* the listing over a catalog that earlier create_movie requests have built
InitList ==
    /\ committed \in Catalogs
    /\ conn = committed
    /\ InitHandlers
    /\ listreq = NoListRequest
    /\ list = NoList

NextList ==
    \/ \E f \in ListRequests : GetMovieList(f)
    \/ FollowNextPage

SpecList == InitList /\ [][NextList]_vars

-----------------------------------------------------------------------------
(* Properties of the listing *)

\* movie m of tables db satisfies the combined filter predicate of request f
Matches(db, f, m) ==
    /\ f.year # None => m.year = f.year[1]
    /\ f.min_imdb # None => m.imdb >= f.min_imdb[1]
    /\ f.max_imdb # None => m.imdb <= f.max_imdb[1]
    /\ f.genre # None =>
         \E r \in Linked(m, db.movies_genres, db.genres) : ILike(r.name, f.genre[1])
    /\ f.director # None =>
         \E r \in Linked(m, db.movies_directors, db.directors) :
             ILike(r.name, f.director[1])
    /\ f.star # None =>
         \E r \in Linked(m, db.movies_stars, db.stars) : ILike(r.name, f.star[1])
    /\ f.search # None =>
         \/ ILike(m.name, f.search[1])
         \/ ILike(m.description, f.search[1])
         \/ \E r \in Linked(m, db.movies_directors, db.directors) :
                ILike(r.name, f.search[1])
         \/ \E r \in Linked(m, db.movies_stars, db.stars) :
                ILike(r.name, f.search[1])

Matching(db, f) == {m \in db.movies : Matches(db, f, m)}

\* the field the documented order sorts on
OrderField(f, m) ==
    IF f.sort_by = Some("price") THEN m.price
    ELSE IF f.sort_by = Some("year") THEN m.year
    ELSE IF f.sort_by = Some("votes") THEN m.votes
    ELSE m.id

MovieById(db, id) == CHOOSE m \in db.movies : m.id = id

\* C1: in a 200 response total_items is the number of distinct movies that
\* satisfy the combined filter predicate
C1_TotalItemsCountsMatches ==
    list.response.status = 200 =>
        list.response.total_items = Cardinality(Matching(conn, listreq))

\* the client started at page 1 and has followed the links to the last page
ScanComplete ==
    /\ list.response.status = 200
    /\ list.first = 1
    /\ list.response.next_page = None

\* C2: the pages 1..total_pages together hold every matching movie exactly
\* once, total_items entries, in descending order of the sort field
C2_PagesPartitionMatches ==
    ScanComplete =>
        /\ Len(list.ids) = list.response.total_items
        /\ \A i, j \in 1..Len(list.ids) : i # j => list.ids[i] # list.ids[j]
        /\ {list.ids[i] : i \in 1..Len(list.ids)} =
               {m.id : m \in Matching(conn, listreq)}
        /\ \A i, j \in 1..Len(list.ids) :
               i < j => OrderField(listreq, MovieById(conn, list.ids[i]))
                          >= OrderField(listreq, MovieById(conn, list.ids[j]))

\* the least k with k * d >= n
CeilDiv(n, d) == CHOOSE k \in 0..n : k * d >= n /\ (k - 1) * d < n

\* C3: in a 200 response total_pages is ceil(total_items / per_page),
\* prev_page is null exactly on page 1, next_page is null exactly from the
\* last page on, and a link names the neighbouring page and the same per_page
C3_PageLinks ==
    list.response.status = 200 =>
        LET r == list.response IN
        /\ r.total_pages = CeilDiv(r.total_items, listreq.per_page)
        /\ (r.prev_page = None) <=> (listreq.page = 1)
        /\ (r.next_page = None) <=> (listreq.page >= r.total_pages)
        /\ r.prev_page # None =>
             /\ r.prev_page[1][2] = listreq.page - 1
             /\ r.prev_page[1][4] = listreq.per_page
        /\ r.next_page # None =>
             /\ r.next_page[1][2] = listreq.page + 1
             /\ r.next_page[1][4] = listreq.per_page

\* a 200 response for the second of three pages, reached by the link of the
\* first: both links present
C3_Witness ==
    /\ list.response.status = 200
    /\ list.response.prev_page # None
    /\ list.response.next_page # None
    /\ list.response.total_pages = 3
    /\ list.first = 1
    /\ Len(list.ids) = 2 * listreq.per_page

\* C4: no matching movie gives 404 and never 200; a matching movie gives
\* 200 for page 1
C4_NotFoundIffNoMatch ==
    list.response.status # 0 =>
        /\ Matching(conn, listreq) = {} => list.response.status = 404
        /\ (Matching(conn, listreq) # {} /\ listreq.page = 1) =>
               list.response.status = 200

-----------------------------------------------------------------------------
(* The session of a request. database.py binds every session to the one    *)
(* module-level connection, so the statements of all requests run in the   *)
(* one transaction of that connection: a SELECT sees every row flushed on  *)
(* the connection, COMMIT makes all of it durable and ROLLBACK drops all   *)
(* of it. A handler gives way to the handlers of other requests at each of *)
(* its awaited database calls.                                             *)

\* db.commit(): COMMIT on the shared connection
Commit(view) == view

\* db.rollback(), and the rollback of a failed flush: ROLLBACK
Rollback(durable) == durable

\* get_db's "finally: db.close()" on a session that neither committed nor
\* rolled back: its transaction is rolled back
Close(durable) == Rollback(durable)

\* the handler returns or raises: the response goes out
Respond(s, status) ==
    /\ pc' = [pc EXCEPT ![s] = "idle"]
    /\ resp' = [resp EXCEPT ![s] = status]

-----------------------------------------------------------------------------
(* create_movie, one action per database call *)

TabOrder == <<"certifications", "genres", "stars", "directors">>

\* the names create_movie resolves in table tab
NamesOf(q, tab) == IF tab = "certifications" THEN <<q.certification>> ELSE q[tab]

NoRows == [certifications |-> <<>>, genres |-> <<>>, stars |-> <<>>, directors |-> <<>>]

\* the table of the next name to resolve, "" when all are resolved
NextTab(q, rows) ==
    IF \E k \in 1..Len(TabOrder) : Len(rows[TabOrder[k]]) < Len(NamesOf(q, TabOrder[k]))
    THEN TabOrder[CHOOSE k \in 1..Len(TabOrder) :
            /\ Len(rows[TabOrder[k]]) < Len(NamesOf(q, TabOrder[k]))
            /\ \A j \in 1..(k - 1) :
                 Len(rows[TabOrder[j]]) = Len(NamesOf(q, TabOrder[j]))]
    ELSE ""

\* the name the handler is resolving
CurrentName(s) ==
    NamesOf(rq[s].data, loc[s].tab)[Len(loc[s].rows[loc[s].tab]) + 1]

\* genres.append(genre) and on to the next name, or to the commit
Resolved(s, row) ==
    LET rows == [loc[s].rows EXCEPT ![loc[s].tab] = Append(@, row)]
        tab == NextTab(rq[s].data, rows)
    IN /\ loc' = [loc EXCEPT ![s] = [kind |-> "create", tab |-> tab, rows |-> rows]]
       /\ pc' = [pc EXCEPT ![s] = IF tab = "" THEN "commit" ELSE "select"]

\* the certification, genres, stars, directors arguments of MovieModel(...)
Relations(rows) ==
    [certification |-> rows.certifications[1], genres |-> rows.genres,
     stars |-> rows.stars, directors |-> rows.directors]

\* POST /movies/ arrives and passes validation
StartCreate(s, q0) ==
    /\ pc[s] = "idle"
    /\ nreq < MaxRequests
    /\ CreateSchemaAccepts(q0)
    /\ nreq' = nreq + 1
    /\ rq' = [rq EXCEPT ![s] = [kind |-> "create", by |-> nreq + 1, raw |-> q0,
                               data |-> Validated(q0)]]
    /\ loc' = [loc EXCEPT ![s] = [kind |-> "create", tab |-> "certifications", rows |-> NoRows]]
    /\ pc' = [pc EXCEPT ![s] = "existing"]
    /\ resp' = [resp EXCEPT ![s] = 0]
    /\ before' = [before EXCEPT ![s] = committed]
    /\ UNCHANGED <<committed, conn, listreq, list, s3>>

\* existing_stmt; 409 when a movie has the name and year
CreateExisting(s) ==
    /\ pc[s] = "existing"
    /\ IF ExistingMovie(conn, rq[s].data)
       THEN /\ Respond(s, 409)
            /\ conn' = Close(committed)
       ELSE /\ pc' = [pc EXCEPT ![s] = "select"]
            /\ UNCHANGED <<resp, conn>>
    /\ UNCHANGED <<committed, nreq, rq, loc, before, listreq, list, s3>>

\* the select of one name; the row found is kept
CreateSelect(s) ==
    /\ pc[s] = "select"
    /\ LET found == FindByName(conn[loc[s].tab], CurrentName(s)) IN
       IF found # None
       THEN Resolved(s, found[1])
       ELSE /\ pc' = [pc EXCEPT ![s] = "flush"]
            /\ UNCHANGED loc
    /\ UNCHANGED <<committed, conn, nreq, rq, resp, before, listreq, list, s3>>

\* db.add(row); db.flush(): the INSERT, or IntegrityError, rollback and 400
CreateFlush(s) ==
    /\ pc[s] = "flush"
    /\ IF LookupViolates(conn, loc[s].tab, CurrentName(s))
       THEN /\ conn' = Rollback(committed)
            /\ Respond(s, 400)
            /\ UNCHANGED loc
       ELSE /\ conn' = InsertLookup(conn, loc[s].tab, CurrentName(s), rq[s].by)
            /\ Resolved(s, FindByName(conn'[loc[s].tab], CurrentName(s))[1])
            /\ UNCHANGED resp
    /\ UNCHANGED <<committed, nreq, rq, before, listreq, list, s3>>

\* db.add(movie); db.commit(); db.refresh(...): 201, or IntegrityError,
\* rollback and 400; 500 when MovieDetailSchema.model_validate(movie) refuses
\* the year of the movie that has been committed
CreateCommit(s) ==
    /\ pc[s] = "commit"
    /\ IF CommitViolates(conn, rq[s].data, Relations(loc[s].rows), rq[s].by)
       THEN /\ conn' = Rollback(committed)
            /\ committed' = committed
            /\ Respond(s, 400)
       ELSE /\ conn' = InsertMovie(conn, rq[s].data, Relations(loc[s].rows), rq[s].by)
            /\ committed' = Commit(conn')
            /\ Respond(s, IF YearAccepted(rq[s].data.year) THEN 201 ELSE 500)
    /\ UNCHANGED <<nreq, rq, loc, before, listreq, list, s3>>

-----------------------------------------------------------------------------
(* update_movie *)

\* the bodies of PATCH /{movie_id}/: the fields the client set
UpdateBodies ==
    {[price |-> 7],
     [votes |-> 0, description |-> <<"b">>],
     [name |-> <<"b">>, year |-> 2021],
     [meta_score |-> None, imdb |-> 10],
     [time |-> 95],
     [year |-> 2028],
     [imdb |-> 11, price |-> 1]}

UpdateIds == {1, 2}

\* an explicit null in the body is dropped like a field that was not set
SetAttrsExcludeNone(movie, body) ==
    [f \in DOMAIN movie |->
        IF f \in DOMAIN body /\ ~(f \in {"meta_score", "gross"} /\ body[f] = None)
        THEN body[f] ELSE movie[f]]

\* for field, value in movie_data.model_dump(exclude_unset=True).items():
\*     setattr(movie, field, value)
SetAttrs(movie, body) ==
    [f \in DOMAIN movie |-> IF f \in DOMAIN body THEN body[f] ELSE movie[f]]

\* the row after the UPDATE of the flush, which writes the attributes whose
\* value differs from the loaded one into the row as it is now
Updated(current, loaded, new) ==
    [f \in DOMAIN current |-> IF new[f] # loaded[f] THEN new[f] ELSE current[f]]

StartUpdate(s, id, body) ==
    /\ pc[s] = "idle"
    /\ nreq < MaxRequests
    /\ UpdateSchemaAccepts(body)
    /\ nreq' = nreq + 1
    /\ rq' = [rq EXCEPT ![s] = [kind |-> "update", by |-> nreq + 1, id |-> id, body |-> body]]
    /\ loc' = [loc EXCEPT ![s] = NoLocals]
    /\ pc' = [pc EXCEPT ![s] = "u_select"]
    /\ resp' = [resp EXCEPT ![s] = 0]
    /\ before' = [before EXCEPT ![s] = committed]
    /\ UNCHANGED <<committed, conn, listreq, list, s3>>

\* select(MovieModel).where(MovieModel.id == movie_id); 404 when there is none
UpdateSelect(s) ==
    /\ pc[s] = "u_select"
    /\ IF \E m \in conn.movies : m.id = rq[s].id
       THEN /\ loc' = [loc EXCEPT ![s] =
                         [kind |-> "update",
                          movie |-> CHOOSE m \in conn.movies : m.id = rq[s].id]]
            /\ pc' = [pc EXCEPT ![s] = "u_commit"]
            /\ UNCHANGED <<resp, conn>>
       ELSE /\ Respond(s, 404)
            /\ conn' = Close(committed)
            /\ UNCHANGED loc
    /\ UNCHANGED <<committed, nreq, rq, before, listreq, list, s3>>

\* the setattr loop, db.commit() and db.refresh(movie): 200, or
\* IntegrityError, rollback and 400; 500 when the row is gone
UpdateCommit(s) ==
    /\ pc[s] = "u_commit"
    /\ LET loaded == loc[s].movie
           new == SetAttrs(loaded, rq[s].body)
       IN IF new = loaded
          THEN /\ conn' = conn
               /\ committed' = Commit(conn')
               /\ Respond(s, 200)
          ELSE IF ~\E m \in conn.movies : m.id = loaded.id
          THEN /\ conn' = Close(committed)
               /\ committed' = committed
               /\ Respond(s, 500)
          ELSE LET current == CHOOSE m \in conn.movies : m.id = loaded.id
                   row == Updated(current, loaded, new)
               IN IF MovieViolates(conn.movies, row)
                  THEN /\ conn' = Rollback(committed)
                       /\ committed' = committed
                       /\ Respond(s, 400)
                  ELSE /\ conn' = [conn EXCEPT !.movies = (@ \ {current}) \cup {row}]
                       /\ committed' = Commit(conn')
                       /\ Respond(s, 200)
    /\ UNCHANGED <<nreq, rq, loc, before, listreq, list, s3>>

-----------------------------------------------------------------------------
(* Requests the schema of the body refuses: 422, the handler is not run *)

Unprocessable(s, route, body) ==
    /\ pc[s] = "idle"
    /\ nreq < MaxRequests
    /\ nreq' = nreq + 1
    /\ rq' = [rq EXCEPT ![s] = [kind |-> "unprocessable", by |-> nreq + 1,
                               route |-> route, body |-> body]]
    /\ loc' = [loc EXCEPT ![s] = NoLocals]
    /\ before' = [before EXCEPT ![s] = committed]
    /\ Respond(s, 422)
    /\ UNCHANGED <<committed, conn, listreq, list, s3>>

CreateUnprocessable(s, q0) ==
    /\ ~CreateSchemaAccepts(q0)
    /\ Unprocessable(s, "create_movie", q0)

UpdateUnprocessable(s, body) ==
    /\ ~UpdateSchemaAccepts(body)
    /\ Unprocessable(s, "update_movie", body)

-----------------------------------------------------------------------------
(* delete_movie *)

DeleteIds == {1, 2}

\* the DELETE of the movie row alone
DeleteMovieRowOnly(db, id) ==
    [db EXCEPT !.movies = {m \in @ : m.id # id}]

\* db.delete(movie) as the flush of the commit carries it out: the rows of
\* the secondary tables of the movie's relationships, then the movie row.
\* cart_items is no relationship of MovieModel and the SQLite connection of
\* database.py does not enforce foreign keys: its rows are not looked at
DeleteMovie(db, id) ==
    [db EXCEPT !.movies = {m \in @ : m.id # id},
               !.movies_genres = {l \in @ : l[1] # id},
               !.movies_stars = {l \in @ : l[1] # id},
               !.movies_directors = {l \in @ : l[1] # id}]

StartDelete(s, id) ==
    /\ pc[s] = "idle"
    /\ nreq < MaxRequests
    /\ nreq' = nreq + 1
    /\ rq' = [rq EXCEPT ![s] = [kind |-> "delete", by |-> nreq + 1, id |-> id]]
    /\ loc' = [loc EXCEPT ![s] = NoLocals]
    /\ pc' = [pc EXCEPT ![s] = "d_select"]
    /\ resp' = [resp EXCEPT ![s] = 0]
    /\ before' = [before EXCEPT ![s] = committed]
    /\ UNCHANGED <<committed, conn, listreq, list, s3>>

\* select(MovieModel).where(MovieModel.id == movie_id); 404 when there is none
DeleteSelect(s) ==
    /\ pc[s] = "d_select"
    /\ IF \E m \in conn.movies : m.id = rq[s].id
       THEN /\ pc' = [pc EXCEPT ![s] = "d_commit"]
            /\ UNCHANGED <<resp, conn>>
       ELSE /\ Respond(s, 404)
            /\ conn' = Close(committed)
    /\ UNCHANGED <<committed, nreq, rq, loc, before, listreq, list, s3>>

\* db.delete(movie); db.commit(): 204; 500 when the row is gone
DeleteCommit(s) ==
    /\ pc[s] = "d_commit"
    /\ IF \E m \in conn.movies : m.id = rq[s].id
       THEN /\ conn' = DeleteMovie(conn, rq[s].id)
            /\ committed' = Commit(conn')
            /\ Respond(s, 204)
       ELSE /\ conn' = Close(committed)
            /\ committed' = committed
            /\ Respond(s, 500)
    /\ UNCHANGED <<nreq, rq, loc, before, listreq, list, s3>>

-----------------------------------------------------------------------------
(* Carts. The routes that fill a cart are not part of the modelled sources; *)
(* a cart item comes into being as a row of cart_items for a stored movie.  *)

CartIds == {1}

CartMovieIds == {1, 2}

\* CartItemModel: cart_id, movie_id
CartItemRow(cart, movie) == [cart_id |-> cart, movie_id |-> movie]

\* a request puts a stored movie into a cart
AddCartItem(s, cart, movie) ==
    /\ pc[s] = "idle"
    /\ nreq < MaxRequests
    /\ \E m \in committed.movies : m.id = movie
    /\ CartItemRow(cart, movie) \notin committed.cart_items
    /\ nreq' = nreq + 1
    /\ rq' = [rq EXCEPT ![s] = [kind |-> "cart", by |-> nreq + 1]]
    /\ loc' = [loc EXCEPT ![s] = NoLocals]
    /\ before' = [before EXCEPT ![s] = committed]
    /\ committed' = [committed EXCEPT !.cart_items = @ \cup {CartItemRow(cart, movie)}]
    /\ conn' = committed'
    /\ Respond(s, 201)
    /\ UNCHANGED <<listreq, list, s3>>

-----------------------------------------------------------------------------
(* Accounts and create_profile *)

\* the users of the store: 1 an active user, 2 a deactivated user, 3 an
\* active admin
Users ==
    {[id |-> 1, is_active |-> TRUE, group |-> "user"],
     [id |-> 2, is_active |-> FALSE, group |-> "user"],
     [id |-> 3, is_active |-> TRUE, group |-> "admin"]}

\* the user_id of the payload of a bearer token; None for a token that
\* decode_access_token refuses; 9 is the id of no user
Tokens == {None, Some(1), Some(3), Some(9)}

ProfileUserIds == {1, 2}

\* select(UserGroupModel).join(UserModel).where(UserModel.id == token_user_id)
GroupOf(id) ==
    IF \E u \in Users : u.id = id
    THEN Some((CHOOSE u \in Users : u.id = id).group)
    ELSE None

\* only the USER group is turned away
ForbiddenOnlyUser(group) == group = Some("user")

\* if not user_group or user_group.name == UserGroupEnum.USER
Forbidden(group) == group = None \/ group = Some("user")

\* if not user or not user.is_active
UserMissingOrInactive(id) == ~\E u \in Users : u.id = id /\ u.is_active

\* the check left out
ExistingProfileNever(db, id) == FALSE

\* stmt_profile: the user has a profile
ExistingProfile(db, id) == \E p \in db.user_profiles : p.user_id = id

\* f"avatars/{user.id}_{profile_data.avatar.filename}"
AvatarKey(id) == <<"avatars/", id, "_", "f">>

\* upload_file: the object of the key is written or overwritten
Upload(objects, key, by) ==
    {o \in objects : o.key # key} \cup {[key |-> key, by |-> by]}

\* the user_profiles table holds one row per user at most
ProfileViolates(db, id) == \E p \in db.user_profiles : p.user_id = id

\* UserProfileModel(user_id=..., avatar=avatar_key)
InsertProfile(db, id, by) ==
    [db EXCEPT !.user_profiles =
        @ \cup {[id |-> NewId(db.user_profiles), user_id |-> id,
                 avatar |-> AvatarKey(id), by |-> by]}]

\* POST /users/{user_id}/profile/: the token is decoded; 401 when it is
\* refused
StartProfile(s, id, token) ==
    /\ pc[s] = "idle"
    /\ nreq < MaxRequests
    /\ nreq' = nreq + 1
    /\ rq' = [rq EXCEPT ![s] = [kind |-> "profile", by |-> nreq + 1,
                               user_id |-> id, token |-> token]]
    /\ loc' = [loc EXCEPT ![s] = NoLocals]
    /\ before' = [before EXCEPT ![s] = committed]
    /\ IF token = None
       THEN Respond(s, 401)
       ELSE /\ pc' = [pc EXCEPT ![s] = IF id # token[1] THEN "p_group" ELSE "p_user"]
            /\ resp' = [resp EXCEPT ![s] = 0]
    /\ UNCHANGED <<committed, conn, listreq, list, s3>>

\* the group of the token's user is read; 403 for none or USER
ProfileGroup(s) ==
    /\ pc[s] = "p_group"
    /\ IF Forbidden(GroupOf(rq[s].token[1]))
       THEN /\ Respond(s, 403)
            /\ conn' = Close(committed)
       ELSE /\ pc' = [pc EXCEPT ![s] = "p_user"]
            /\ UNCHANGED <<resp, conn>>
    /\ UNCHANGED <<committed, nreq, rq, loc, before, listreq, list, s3>>

\* the target user is read; 401 when missing or not active
ProfileUser(s) ==
    /\ pc[s] = "p_user"
    /\ IF UserMissingOrInactive(rq[s].user_id)
       THEN /\ Respond(s, 401)
            /\ conn' = Close(committed)
       ELSE /\ pc' = [pc EXCEPT ![s] = "p_existing"]
            /\ UNCHANGED <<resp, conn>>
    /\ UNCHANGED <<committed, nreq, rq, loc, before, listreq, list, s3>>

\* the profile of the user is read; 400 when there is one
ProfileExisting(s) ==
    /\ pc[s] = "p_existing"
    /\ IF ExistingProfile(conn, rq[s].user_id)
       THEN /\ Respond(s, 400)
            /\ conn' = Close(committed)
       ELSE /\ pc' = [pc EXCEPT ![s] = "p_upload"]
            /\ UNCHANGED <<resp, conn>>
    /\ UNCHANGED <<committed, nreq, rq, loc, before, listreq, list, s3>>

\* s3_client.upload_file: the avatar is stored, or S3FileUploadError and 500
ProfileUpload(s) ==
    /\ pc[s] = "p_upload"
    /\ \/ /\ s3' = Upload(s3, AvatarKey(rq[s].user_id), rq[s].by)
          /\ pc' = [pc EXCEPT ![s] = "p_commit"]
          /\ UNCHANGED <<resp, conn>>
       \/ /\ Respond(s, 500)
          /\ conn' = Close(committed)
          /\ UNCHANGED s3
    /\ UNCHANGED <<committed, nreq, rq, loc, before, listreq, list>>

\* db.add(new_profile); db.commit(); db.refresh(new_profile): 201; the
\* IntegrityError of a second row for the user is not caught: 500
ProfileCommit(s) ==
    /\ pc[s] = "p_commit"
    /\ IF ProfileViolates(conn, rq[s].user_id)
       THEN /\ conn' = Close(committed)
            /\ committed' = committed
            /\ Respond(s, 500)
       ELSE /\ conn' = InsertProfile(conn, rq[s].user_id, rq[s].by)
            /\ committed' = Commit(conn')
            /\ Respond(s, 201)
    /\ UNCHANGED <<nreq, rq, loc, before, listreq, list, s3>>

ProfileStep(s) ==
    \/ \E id \in ProfileUserIds, token \in Tokens : StartProfile(s, id, token)
    \/ ProfileGroup(s)
    \/ ProfileUser(s)
    \/ ProfileExisting(s)
    \/ ProfileUpload(s)
    \/ ProfileCommit(s)

-----------------------------------------------------------------------------
(* The movie routes for moderators and admins. create_movie, update_movie   *)
(* and delete_movie depend on require_moderator_or_admin_user, which is run *)
(* before the handler; the requests of the Start actions above come from a  *)
(* moderator or admin.                                                      *)

MovieRoutes == {"create_movie", "update_movie", "delete_movie"}

\* the status the dependency raises, 0 when it lets the request through
RequireModeratorOrAdmin(token) ==
    IF token = None \/ GroupOf(token[1]) = None THEN 401
    ELSE IF GroupOf(token[1]) = Some("user") THEN 403
    ELSE 0

\* a request the dependency turns away: the handler is not run
Unauthorized(s, route, token) ==
    /\ pc[s] = "idle"
    /\ nreq < MaxRequests
    /\ RequireModeratorOrAdmin(token) # 0
    /\ nreq' = nreq + 1
    /\ rq' = [rq EXCEPT ![s] = [kind |-> "unauthorized", by |-> nreq + 1,
                               route |-> route, token |-> token]]
    /\ loc' = [loc EXCEPT ![s] = NoLocals]
    /\ before' = [before EXCEPT ![s] = committed]
    /\ Respond(s, RequireModeratorOrAdmin(token))
    /\ UNCHANGED <<committed, conn, listreq, list, s3>>

-----------------------------------------------------------------------------
(* The specifications of the write handlers *)

Init ==
    /\ committed = EmptyDB
    /\ conn = committed
    /\ InitHandlers
    /\ listreq = NoListRequest
    /\ list = NoList

\* the arrival of a request in slot s, or one database call of its handler
Step(s) ==
    \/ \E q \in CreateRequests : StartCreate(s, q)
    \/ CreateExisting(s)
    \/ CreateSelect(s)
    \/ CreateFlush(s)
    \/ CreateCommit(s)
    \/ \E id \in UpdateIds, body \in UpdateBodies : StartUpdate(s, id, body)
    \/ UpdateSelect(s)
    \/ UpdateCommit(s)
    \/ \E id \in DeleteIds : StartDelete(s, id)
    \/ DeleteSelect(s)
    \/ DeleteCommit(s)
    \/ \E q \in CreateRequests : CreateUnprocessable(s, q)
    \/ \E body \in UpdateBodies : UpdateUnprocessable(s, body)
    \/ \E route \in MovieRoutes, token \in Tokens : Unauthorized(s, route, token)
    \/ ProfileStep(s)

\* requests served one after the other: one slot is in use
Next ==
    \/ Step(1)
    \/ \E cart \in CartIds, movie \in CartMovieIds : AddCartItem(1, cart, movie)

Spec == Init /\ [][Next]_vars

\* the create_movie requests that race: Q1 and Q2 share a certification, a
\* genre and a star; Q5 fails at its commit
ConcRequests == {Q1, Q2, Q5}

\* create_movie requests interleaved at their database calls
NextConc ==
    \E s \in Slots :
        \/ \E q \in ConcRequests : StartCreate(s, q)
        \/ CreateExisting(s)
        \/ CreateSelect(s)
        \/ CreateFlush(s)
        \/ CreateCommit(s)

SpecConc == Init /\ [][NextConc]_vars

\* create_profile requests interleaved at their database and storage calls
NextProfiles == \E s \in Slots : ProfileStep(s)

SpecProfiles == Init /\ [][NextProfiles]_vars

-----------------------------------------------------------------------------
(* Properties of the write handlers *)

LookupTables == {"certifications", "genres", "stars", "directors"}

AllTables ==
    {"movies", "genres", "stars", "directors", "certifications",
     "movies_genres", "movies_stars", "movies_directors"}

\* the request of slot s was a `kind` request and has been answered `status`
Answered(s, kind, status) ==
    /\ pc[s] = "idle"
    /\ rq[s].kind = kind
    /\ resp[s] = status

\* the names a create request refers to in a lookup table, as the handler
\* is meant to store them: title-cased for the three lists
Referenced(raw, tab) ==
    IF tab = "certifications" THEN {raw.certification}
    ELSE {Title(raw[tab][i]) : i \in 1..Len(raw[tab])}

NamesIn(rows) == {r.name : r \in rows}

LinkTable(tab) ==
    CASE tab = "genres" -> "movies_genres"
      [] tab = "stars" -> "movies_stars"
      [] tab = "directors" -> "movies_directors"

\* C5: after a successful create_movie every referenced name has exactly one
\* row, the rows that existed are kept and reused, and each lookup table has
\* grown by the number of distinct new names; the new movie is linked to
\* exactly the rows of its names
C5_LookupRowsReusedOrAddedOnce ==
    \A s \in Slots :
        Answered(s, "create", 201) =>
            \A tab \in LookupTables :
                LET names == Referenced(rq[s].raw, tab)
                    fresh == names \ NamesIn(before[s][tab])
                IN /\ before[s][tab] \subseteq committed[tab]
                   /\ \A n \in names :
                        Cardinality({r \in committed[tab] : r.name = n}) = 1
                   /\ Cardinality(committed[tab]) =
                        Cardinality(before[s][tab]) + Cardinality(fresh)
                   /\ \A m \in committed.movies \ before[s].movies :
                        IF tab = "certifications"
                        THEN \E r \in committed[tab] :
                                r.id = m.certification_id /\ r.name \in names
                        ELSE NamesIn(Linked(m, committed[LinkTable(tab)],
                                            committed[tab])) = names

\* a successful creation that reused a stored row and added a new one in the
\* same table, with a name sent in another case than it is stored in
C5_Witness ==
    \E s \in Slots :
        /\ Answered(s, "create", 201)
        /\ \E tab \in LookupTables \ {"certifications"} :
             /\ Referenced(rq[s].raw, tab) \cap NamesIn(before[s][tab]) # {}
             /\ Referenced(rq[s].raw, tab) \ NamesIn(before[s][tab]) # {}
             /\ \E i \in 1..Len(rq[s].raw[tab]) :
                    rq[s].raw[tab][i] # Title(rq[s].raw[tab][i])

\* C6: create_movie for the (name, year) of a stored movie answers 409 and
\* leaves every table as it was
C6_ConflictChangesNothing ==
    \A s \in Slots :
        (pc[s] = "idle" /\ rq[s].kind = "create" /\ resp[s] # 0
            /\ \E m \in before[s].movies :
                 m.name = rq[s].raw.name /\ m.year = rq[s].raw.year)
        => /\ resp[s] = 409
           /\ \A tab \in AllTables : committed[tab] = before[s][tab]
           /\ conn = committed

\* a 409 for a request that names a certification and a genre not stored
C6_Witness ==
    \E s \in Slots :
        /\ Answered(s, "create", 409)
        /\ rq[s].raw.certification \notin NamesIn(committed.certifications)
        /\ Referenced(rq[s].raw, "genres") \cap NamesIn(committed.genres) = {}
        /\ committed.movies # {}

\* a row that the request of slot s inserted is in the durable tables
OwnRowSurvives(s) ==
    \E tab \in LookupTables \cup {"movies"} :
        \E r \in committed[tab] : r.by = rq[s].by

\* C7: a create_movie that ends in 400 'Invalid input data.' leaves no
\* certification, genre, star, director or movie row of its own behind
C7_FailedCreateLeavesNothing ==
    \A s \in Slots : Answered(s, "create", 400) => ~OwnRowSurvives(s)

\* the request of slot s lost a race: its flush of a lookup row was refused
LostRace(s) == Answered(s, "create", 400) /\ loc[s].tab # ""

\* C8: no lookup table ever holds two rows of one name, and a create_movie
\* whose insert of a lookup row is refused answers with an error and leaves
\* none of its own writes behind
C8_RaceLoserLeavesNothing ==
    /\ \A tab \in LookupTables :
          \A r1, r2 \in committed[tab] : r1.name = r2.name => r1 = r2
    /\ \A s \in Slots : LostRace(s) => ~OwnRowSurvives(s)

\* C9: a request never holds a row that another request flushed and has not
\* committed
C9_NoDirtyRead ==
    \A s \in Slots :
        loc[s].kind = "create" =>
            \A tab \in LookupTables :
                \A i \in 1..Len(loc[s].rows[tab]) :
                    loc[s].rows[tab][i].by # rq[s].by =>
                        loc[s].rows[tab][i] \in committed[tab]

UpdateFrame == {"id", "uuid", "certification_id", "by"}

\* C10: a successful update_movie gives the fields of the body their values
\* and leaves every other field of the movie, its links and every other row
\* as they were
C10_UpdateSetsOnlyBodyFields ==
    \A s \in Slots :
        Answered(s, "update", 200) =>
            /\ \E old \in before[s].movies, new \in committed.movies :
                  /\ old.id = rq[s].id
                  /\ new.id = rq[s].id
                  /\ \A f \in DOMAIN rq[s].body : new[f] = rq[s].body[f]
                  /\ \A f \in DOMAIN old \ DOMAIN rq[s].body : new[f] = old[f]
                  /\ \A f \in UpdateFrame : new[f] = old[f]
                  /\ committed.movies \ {new} = before[s].movies \ {old}
            /\ \A tab \in AllTables \ {"movies"} : committed[tab] = before[s][tab]

\* a successful update that changed a field, nulled another and kept the rest
C10_Witness ==
    \E s \in Slots :
        /\ Answered(s, "update", 200)
        /\ "meta_score" \in DOMAIN rq[s].body
        /\ \E old \in before[s].movies :
              /\ old.id = rq[s].id
              /\ old.meta_score # None
              /\ old.imdb # rq[s].body.imdb
        /\ Cardinality(committed.movies) = 2

\* the request of slot s was a `kind` request and has been answered
Done(s, kind) ==
    /\ pc[s] = "idle"
    /\ rq[s].kind = kind
    /\ resp[s] # 0

\* the value the body of the update of slot s asks for field f of movie old
Asked(s, old, f) ==
    IF f \in DOMAIN rq[s].body THEN rq[s].body[f] ELSE old[f]

\* the update of slot s asks for the (name, year, time) of another movie
\* that was stored when it arrived
AsksForTakenKey(s) ==
    \E old, o \in before[s].movies :
        /\ old.id = rq[s].id
        /\ o.id # old.id
        /\ Asked(s, old, "name") = o.name
        /\ Asked(s, old, "year") = o.year
        /\ Asked(s, old, "time") = o.time

\* C11: an update_movie that asks for the (name, year, time) of another
\* stored movie is answered 400 and one for an id without a movie 404, and
\* both leave every table as it was
C11_RefusedUpdateChangesNothing ==
    \A s \in Slots :
        Done(s, "update") =>
            /\ AsksForTakenKey(s) =>
                  /\ resp[s] = 400
                  /\ committed = before[s]
                  /\ conn = committed
            /\ (~\E m \in before[s].movies : m.id = rq[s].id) =>
                  /\ resp[s] = 404
                  /\ committed = before[s]
                  /\ conn = committed

\* an update answered 400 for the name and year of another movie that has
\* the same running time
C11_Witness ==
    \E s \in Slots :
        /\ Answered(s, "update", 400)
        /\ AsksForTakenKey(s)
        /\ "name" \in DOMAIN rq[s].body

\* the rows of a link table that belong to other movies than id
LinksOfOthers(links, id) == {l \in links : l[1] # id}

\* C12: delete_movie of a stored movie removes the movie row and its rows in
\* the three link tables and leaves the lookup tables, the other movies and
\* their links as they were; for an id without a movie it answers 404 and
\* changes nothing
C12_DeleteRemovesMovieAndLinks ==
    \A s \in Slots :
        Done(s, "delete") =>
            IF \E m \in before[s].movies : m.id = rq[s].id
            THEN /\ resp[s] = 204
                 /\ committed.movies = {m \in before[s].movies : m.id # rq[s].id}
                 /\ \A tab \in LookupTables :
                       /\ committed[tab] = before[s][tab]
                       /\ tab # "certifications" =>
                             committed[LinkTable(tab)] =
                                LinksOfOthers(before[s][LinkTable(tab)], rq[s].id)
            ELSE /\ resp[s] = 404
                 /\ committed = before[s]
                 /\ conn = committed

\* a 204 for a movie that shared a genre with a movie that stays
C12_Witness ==
    \E s \in Slots :
        /\ Answered(s, "delete", 204)
        /\ \E l \in before[s].movies_genres :
              /\ l[1] = rq[s].id
              /\ \E k \in committed.movies_genres : k[2] = l[2]

\* C13: every cart item refers to a stored movie
C13_CartItemsReferToMovies ==
    \A c \in committed.cart_items :
        \E m \in committed.movies : m.id = c.movie_id

\* the body the request of slot s was sent with
SentBody(s) ==
    IF rq[s].kind = "create" THEN rq[s].raw ELSE rq[s].body

\* a body with a rating off the scale, a negative number of votes or price,
\* or a year beyond next year
OutOfRange(b) ==
    \/ "imdb" \in DOMAIN b /\ (b.imdb < 0 \/ b.imdb > 10)
    \/ "votes" \in DOMAIN b /\ b.votes < 0
    \/ "price" \in DOMAIN b /\ b.price < 0
    \/ "year" \in DOMAIN b /\ b.year > CurrentYear + 1

\* C16: a create_movie or update_movie body that is out of range is refused
\* with 422 and no change, and no stored movie has a rating off the scale or
\* a year beyond next year
C16_OutOfRangeIsRefused ==
    /\ \A s \in Slots :
          (pc[s] = "idle" /\ resp[s] # 0
              /\ rq[s].kind \in {"create", "update", "unprocessable"}
              /\ OutOfRange(SentBody(s)))
          => /\ resp[s] = 422
             /\ committed = before[s]
    /\ \A m \in committed.movies :
          /\ m.imdb >= 0 /\ m.imdb <= 10
          /\ m.year <= CurrentYear + 1

\* C17: no two stored movies have the same name and year
C17_NameAndYearUnique ==
    \A m1, m2 \in committed.movies :
        (m1.name = m2.name /\ m1.year = m2.year) => m1 = m2

\* the request of slot s has left a profile row or an avatar of its own
WroteProfile(s) ==
    \/ \E p \in committed.user_profiles : p.by = rq[s].by
    \/ \E o \in s3 : o.by = rq[s].by

\* the token of the request of slot s is for another user than the target,
\* whose group is missing or USER
TokenOfOtherPlainUser(s) ==
    /\ rq[s].token # None
    /\ rq[s].token[1] # rq[s].user_id
    /\ ~\E u \in Users :
          u.id = rq[s].token[1] /\ u.group \in {"moderator", "admin"}

\* C14: create_profile answers 401 to a token that cannot be decoded and 403
\* to the token of another user without moderator or admin group, and a
\* request answered 401 or 403, on the profile or a movie route, writes
\* nothing
C14_RejectedRequestsWriteNothing ==
    \A s \in Slots :
        /\ Done(s, "profile") =>
              /\ rq[s].token = None => resp[s] = 401
              /\ TokenOfOtherPlainUser(s) => resp[s] = 403
              /\ resp[s] \in {401, 403} =>
                    /\ ~WroteProfile(s)
                    /\ committed = before[s]
                    /\ conn = committed
        /\ Done(s, "unauthorized") =>
              /\ resp[s] \in {401, 403}
              /\ committed = before[s]
              /\ conn = committed

\* a 403 for a request on the profile of an active user who has none, sent
\* with the token of an unknown user
C14_Witness ==
    \E s \in Slots :
        /\ Answered(s, "profile", 403)
        /\ rq[s].user_id = 1
        /\ rq[s].token = Some(9)
        /\ committed.user_profiles = {}

\* the request of slot s passes the authorization of create_profile
PassesAuthorization(s) ==
    /\ rq[s].token # None
    /\ ~TokenOfOtherPlainUser(s)

=============================================================================
